---- MODULE Spec2Model ----
(***************************************************************************)
(* A model of bibparser: the character-level lexer (src/src/lexer.rs), the *)
(* entry assembler (src/src/parser.rs) and the functions of BibEntry on    *)
(* field values (src/src/types.rs).                                        *)
(*                                                                         *)
(* A character is a one-element string; a Rust String is a sequence of     *)
(* characters.  Option<T> is a sequence of length at most one.             *)
(***************************************************************************)
EXTENDS Naturals, Integers, Sequences, FiniteSets, TLC

VARIABLES
    input,        \* what the source was built from (fixed during a run)
    src,          \* Lexer.src: the source text
    iter,         \* BibEntries.iter: the LexingIterator's fields
    entries,      \* BibEntries.entries
    current,      \* BibEntries.current
    name_cached,  \* BibEntries.name_cached
    finished,     \* BibEntries.finished
    pc,           \* where control is: idle, next, parse, lex, lex_end
    lex_line,     \* lex(): the `line` of the outer for loop
    lex_rest,     \* lex(): what src.lines() has not handed out yet
    lex_pos,      \* lex(): index of the next chr of line.chars().chain(once('\n'))
    pulls,        \* number of calls of BibEntries::next so far
    yielded,      \* history: what the calls of BibEntries::next returned
    emitted,      \* history: the tokens pushed to next_tokens
    call_src,     \* the `src` a function of BibEntry (types.rs) is called on
    op,           \* the function of BibEntry called last, or "none"
    ret           \* what that call returned

\* what the calls of the functions of BibEntry read and write
typesvars == <<call_src, op, ret>>

vars == <<input, src, iter, entries, current, name_cached, finished, pc,
          lex_line, lex_rest, lex_pos, pulls, yielded, emitted, typesvars>>

-----------------------------------------------------------------------------
(* Characters *)

NBSP == "U+00A0"        \* NO-BREAK SPACE: whitespace, not ASCII
EAcute == "U+00E9"      \* LATIN SMALL LETTER E WITH ACUTE: a letter, not ASCII

LowerAlpha == <<"a","b","c","d","e","f","g","h","i","j","k","l","m",
                "n","o","p","q","r","s","t","u","v","w","x","y","z">>
UpperAlpha == <<"A","B","C","D","E","F","G","H","I","J","K","L","M",
                "N","O","P","Q","R","S","T","U","V","W","X","Y","Z">>
Digits == {"0","1","2","3","4","5","6","7","8","9"}

Range(s) == {s[i] : i \in DOMAIN s}

\* char::is_whitespace
IsWhitespace(chr) == chr \in {" ", "\t", "\n", "\r", NBSP}

\* char::is_alphanumeric
IsAlphanumeric(chr) ==
    chr \in Range(LowerAlpha) \cup Range(UpperAlpha) \cup Digits \cup {EAcute}

\* char::is_ascii
IsAscii(chr) == chr \notin {NBSP, EAcute}

\* char::to_lowercase
CharToLowercase(chr) ==
    IF chr \in Range(UpperAlpha)
    THEN LowerAlpha[CHOOSE i \in DOMAIN UpperAlpha : UpperAlpha[i] = chr]
    ELSE chr

\* str::to_lowercase
ToLowercase(s) == [i \in DOMAIN s |-> CharToLowercase(s[i])]

PreambleWord == <<"p","r","e","a","m","b","l","e">>

None == <<>>
Some(x) == <<x>>

-----------------------------------------------------------------------------
(* Tokens, positions, errors *)

EntrySymbol == [type |-> "EntrySymbol", text |-> <<>>]
EntryType(s) == [type |-> "EntryType", text |-> s]
OpenEntry == [type |-> "OpenEntry", text |-> <<>>]
EntryId(s) == [type |-> "EntryId", text |-> s]
FieldName(s) == [type |-> "FieldName", text |-> s]
FieldData(s) == [type |-> "FieldData", text |-> s]
Preamble(s) == [type |-> "Preamble", text |-> s]
CloseEntry == [type |-> "CloseEntry", text |-> <<>>]
EndOfFile == [type |-> "EndOfFile", text |-> <<>>]

\* LexingIterator::info
Info(l, line) ==
    [lineno |-> l.lineno, colno |-> l.colno,
     current_line |-> line, current_id |-> l.current_id]

\* impl Display for LexingState
StateDescription(state) ==
    CASE state = "Default" -> "waiting for next entry"
      [] state = "ReadingType" -> "reading entry type"
      [] state = "WaitForOpen" -> "expecting '{' for entry data"
      [] state = "ReadingId" -> "reading entry ID"
      [] state = "WaitForComma" -> "waiting for comma separating ID and fields"
      [] state = "ReadingName" -> "reading field name"
      [] state = "WaitForAssign" -> "expecting '=' for field assignment"
      [] state = "ReadingDataStart" -> "reading start of field data"
      [] state = "ReadingData" -> "reading field data"
      [] state = "ReadingPreambleStringStart" -> "reading start of preamble string"
      [] state = "ReadingPreambleString" -> "reading preamble content string"
      [] state = "ReadingPreambleStringStartOrConcat" -> "reading next preamble content string"
      [] state = "WaitForSep" -> "expecting separator ',' between field"

LexingStates ==
    {"Default", "ReadingType", "WaitForOpen", "ReadingId", "WaitForComma",
     "ReadingName", "WaitForAssign", "ReadingDataStart", "ReadingData",
     "ReadingPreambleStringStart", "ReadingPreambleStringStartOrConcat",
     "ReadingPreambleString", "WaitForSep"}

UnexpectedChar(chr, text, info) ==
    [kind |-> "UnexpectedChar", chr |-> chr, action |-> text, info |-> info]
UnexpectedEOF(action) ==
    [kind |-> "UnexpectedEOF", action |-> action]
DuplicateName(name, info) ==
    [kind |-> "DuplicateName", name |-> name, info |-> info]

\* What one step of the state machine gives: the lexer's fields after it and
\* the error it returned, if any.
Fine(l) == [l |-> l, err |-> None]
\* a faulty variant: the rejected chr is counted and the arg cache dropped
Unexpected_Consumes(l, chr, text, line) ==
    [l |-> [l EXCEPT !.colno = @ + 1, !.arg_cache = <<>>],
     err |-> Some(UnexpectedChar(chr, text, Info(l, line)))]

\* the `unexpected` closure of lex()
Unexpected(l, chr, text, line) ==
    [l |-> l, err |-> Some(UnexpectedChar(chr, text, Info(l, line)))]

\* self.next_tokens.push_back((token, self.info(line)))
Push(l, token, line) ==
    [l EXCEPT !.next_tokens = Append(@, [token |-> token, info |-> Info(l, line)])]

\* Lexer::iter
NewLexingIterator ==
    [next_tokens |-> <<>>, lineno |-> 0, colno |-> 0, state |-> "Default",
     current_id |-> None, arg_cache |-> <<>>, escape_character |-> FALSE,
     dblquotes_terminator |-> FALSE, curlybrace_terminator |-> FALSE,
     curlybrace_level |-> 0, eof |-> FALSE]

\* BibEntry::new
NewBibEntry == [kind |-> <<>>, id |-> <<>>, fields |-> <<>>]

-----------------------------------------------------------------------------
(* lex(): one arm of `match self.state` per operator *)

\* the @preamble special case after '{'
AfterOpen(l) ==
    IF l.current_id # None /\ ToLowercase(l.current_id[1]) = PreambleWord
    THEN [l EXCEPT !.state = "ReadingPreambleStringStart"]
    ELSE l

LexDefault(l, chr, line) ==
    IF chr = "@" THEN Fine([l EXCEPT !.state = "ReadingType"])
    ELSE IF IsWhitespace(chr) THEN Fine(l)
    ELSE Unexpected(l, chr, "reading next entry", line)

\* a faulty variant: the branch that accumulates is tried first, so that
\* whitespace after a non-empty type is accumulated
LexReadingType_KeepsWhitespace(l, chr, line) ==
    IF IsAlphanumeric(chr) \/ (l.arg_cache # <<>> /\ IsWhitespace(chr)) THEN
        Fine([l EXCEPT !.arg_cache = Append(@, chr)])
    ELSE IF IsWhitespace(chr) THEN Fine(l)
    ELSE IF chr = "{" THEN
        LET l1 == IF l.arg_cache # <<>>
                  THEN [l EXCEPT !.current_id = Some(l.arg_cache)] ELSE l
            l2 == Push(l1, EntrySymbol, line)
            l3 == Push(l2, EntryType(l2.arg_cache), line)
            l4 == Push(l3, OpenEntry, line)
            l5 == [l4 EXCEPT !.arg_cache = <<>>, !.state = "ReadingId"]
        IN Fine(AfterOpen(l5))
    ELSE Unexpected(l, chr, "reading entry type", line)

LexReadingType(l, chr, line) ==
    IF IsWhitespace(chr) THEN
        IF l.arg_cache = <<>> THEN Fine(l)
        ELSE Fine([Push(l, EntrySymbol, line) EXCEPT !.state = "WaitForOpen"])
    ELSE IF IsAlphanumeric(chr) \/ (l.arg_cache # <<>> /\ IsWhitespace(chr)) THEN
        Fine([l EXCEPT !.arg_cache = Append(@, chr)])
    ELSE IF chr = "{" THEN
        LET l1 == IF l.arg_cache # <<>>
                  THEN [l EXCEPT !.current_id = Some(l.arg_cache)] ELSE l
            l2 == Push(l1, EntrySymbol, line)
            l3 == Push(l2, EntryType(l2.arg_cache), line)
            l4 == Push(l3, OpenEntry, line)
            l5 == [l4 EXCEPT !.arg_cache = <<>>, !.state = "ReadingId"]
        IN Fine(AfterOpen(l5))
    ELSE Unexpected(l, chr, "reading entry type", line)

\* a faulty variant: no EntryType is pushed when '{' follows the whitespace
LexWaitForOpen_NoType(l, chr, line) ==
    IF IsWhitespace(chr) THEN Fine(l)
    ELSE IF chr = "{" THEN
        LET l2 == Push(l, OpenEntry, line)
            l3 == [l2 EXCEPT !.arg_cache = <<>>, !.state = "ReadingId"]
        IN Fine(AfterOpen(l3))
    ELSE Unexpected(l, chr, "expecting '{' to start list of fields", line)

LexWaitForOpen(l, chr, line) ==
    IF IsWhitespace(chr) THEN Fine(l)
    ELSE IF chr = "{" THEN
        LET l1 == Push(l, EntryType(l.arg_cache), line)
            l2 == Push(l1, OpenEntry, line)
            l3 == [l2 EXCEPT !.arg_cache = <<>>, !.state = "ReadingId"]
        IN Fine(AfterOpen(l3))
    ELSE Unexpected(l, chr, "expecting '{' to start list of fields", line)

\* a faulty variant: the id is left in the arg cache after EntryId is pushed
LexReadingId_KeepsCache(l, chr, line) ==
    IF IsWhitespace(chr) THEN
        IF l.arg_cache = <<>> THEN Fine(l)
        ELSE Fine([l EXCEPT !.state = "WaitForComma"])
    ELSE IF chr = "," THEN
        Fine([Push(l, EntryId(l.arg_cache), line) EXCEPT !.state = "ReadingName"])
    ELSE IF ~IsAscii(chr) THEN Unexpected(l, chr, "expecting ASCII entry name", line)
    ELSE Fine([l EXCEPT !.arg_cache = Append(@, chr)])

LexReadingId(l, chr, line) ==
    IF IsWhitespace(chr) THEN
        IF l.arg_cache = <<>> THEN Fine(l)
        ELSE Fine([l EXCEPT !.state = "WaitForComma"])
    ELSE IF chr = "," THEN
        Fine([Push(l, EntryId(l.arg_cache), line)
                EXCEPT !.arg_cache = <<>>, !.state = "ReadingName"])
    ELSE IF ~IsAscii(chr) THEN Unexpected(l, chr, "expecting ASCII entry name", line)
    ELSE Fine([l EXCEPT !.arg_cache = Append(@, chr)])

LexWaitForComma(l, chr, line) ==
    IF IsWhitespace(chr) THEN Fine(l)
    ELSE IF chr = "," THEN
        Fine([Push(l, EntryId(l.arg_cache), line)
                EXCEPT !.arg_cache = <<>>, !.state = "ReadingName"])
    ELSE Unexpected(l, chr, "expecting ',' after name", line)

\* a faulty variant: a chr that is not ASCII is accumulated like any other
LexReadingName_AcceptsAll(l, chr, line) ==
    IF IsWhitespace(chr) THEN
        IF l.arg_cache = <<>> THEN Fine(l)
        ELSE Fine([l EXCEPT !.state = "WaitForAssign"])
    ELSE IF chr = "=" THEN
        Fine([Push(l, FieldName(l.arg_cache), line)
                EXCEPT !.arg_cache = <<>>, !.state = "ReadingDataStart"])
    ELSE Fine([l EXCEPT !.arg_cache = Append(@, chr)])

LexReadingName(l, chr, line) ==
    IF IsWhitespace(chr) THEN
        IF l.arg_cache = <<>> THEN Fine(l)
        ELSE Fine([l EXCEPT !.state = "WaitForAssign"])
    ELSE IF chr = "=" THEN
        Fine([Push(l, FieldName(l.arg_cache), line)
                EXCEPT !.arg_cache = <<>>, !.state = "ReadingDataStart"])
    ELSE IF IsAscii(chr) THEN Fine([l EXCEPT !.arg_cache = Append(@, chr)])
    ELSE Unexpected(l, chr, "expecting field name", line)

LexWaitForAssign(l, chr, line) ==
    IF IsWhitespace(chr) THEN Fine(l)
    ELSE IF chr = "=" THEN
        Fine([Push(l, FieldName(l.arg_cache), line)
                EXCEPT !.arg_cache = <<>>, !.state = "ReadingDataStart"])
    ELSE Unexpected(l, chr, "expecting field name", line)

LexReadingDataStart(l, chr, line) ==
    IF IsWhitespace(chr) THEN Fine(l)
    ELSE IF chr = "{" THEN
        Fine([l EXCEPT !.curlybrace_terminator = TRUE, !.dblquotes_terminator = FALSE,
                       !.curlybrace_level = 0, !.state = "ReadingData"])
    ELSE IF chr = "\"" THEN
        Fine([l EXCEPT !.curlybrace_terminator = FALSE, !.dblquotes_terminator = TRUE,
                       !.curlybrace_level = 0, !.state = "ReadingData"])
    ELSE Unexpected(l, chr, "expecting field name", line)

\* LexingIterator::postprocess_field_value
PostprocessFieldValue(s) == s

\* emit FieldData and wait for the separator
EmitFieldData(l, line) ==
    [Push(l, FieldData(PostprocessFieldValue(l.arg_cache)), line)
        EXCEPT !.arg_cache = <<>>, !.state = "WaitForSep"]

\* `self.curlybrace_terminator && self.curlybrace_level == 0`, after the
\* faulty variant that forgets the depth
IsBraceTerminator_IgnoresLevel(l) == l.curlybrace_terminator
IsBraceTerminator(l) == l.curlybrace_terminator /\ l.curlybrace_level = 0

\* `self.escape_character && chr == '"' && self.dblquotes_terminator`, after
\* the faulty variant that tests the other terminator flag
IsEscapedQuote_WrongFlag(l, chr) ==
    l.escape_character /\ chr = "\"" /\ l.curlybrace_terminator
IsEscapedQuote(l, chr) ==
    l.escape_character /\ chr = "\"" /\ l.dblquotes_terminator

\* `self.escape_character && chr == '}' && self.curlybrace_terminator`, after
\* the faulty variant that tests the other terminator flag
IsEscapedBrace_WrongFlag(l, chr) ==
    l.escape_character /\ chr = "}" /\ l.dblquotes_terminator
IsEscapedBrace(l, chr) ==
    l.escape_character /\ chr = "}" /\ l.curlybrace_terminator

\* a faulty variant: the second backslash is kept as a backslash
PushDoubleBackslash_KeepsBackslash(cache) == Append(cache, "\\")
\* `self.arg_cache.push('\n')` on the second of two backslashes
PushDoubleBackslash(cache) == Append(cache, "\n")

\* a faulty variant: the backslash of an escaped chr is dropped
PushEscaped_DropsBackslash(cache, chr) == Append(cache, chr)
\* `self.arg_cache.push('\\'); self.arg_cache.push(chr)`
PushEscaped(cache, chr) == Append(Append(cache, "\\"), chr)

\* a faulty variant: '{' is counted in a quote-delimited value too
OpenBraceLevel_AlwaysCounts(l) == l.curlybrace_level + 1
\* `if self.curlybrace_terminator { self.curlybrace_level += 1; }`
OpenBraceLevel(l) ==
    IF l.curlybrace_terminator THEN l.curlybrace_level + 1 ELSE l.curlybrace_level

LexReadingData(l, chr, line) ==
    IF chr = "\\" /\ ~l.escape_character THEN
        Fine([l EXCEPT !.escape_character = TRUE])
    ELSE IF chr = "\\" /\ l.escape_character THEN
        Fine([l EXCEPT !.escape_character = FALSE,
                       !.arg_cache = PushDoubleBackslash(@)])
    ELSE IF chr = "{" /\ ~l.escape_character THEN
        Fine([l EXCEPT !.curlybrace_level = OpenBraceLevel(l),
                       !.arg_cache = Append(@, chr)])
    ELSE IF chr = "}" /\ ~l.escape_character THEN
        IF IsBraceTerminator(l)
        THEN Fine(EmitFieldData(l, line))
        ELSE Fine([l EXCEPT !.curlybrace_level =
                                IF l.curlybrace_terminator THEN @ - 1 ELSE @,
                            !.arg_cache = Append(@, chr)])
    ELSE IF chr = "\"" /\ ~l.escape_character THEN
        IF l.dblquotes_terminator
        THEN Fine(EmitFieldData(l, line))
        ELSE Fine([l EXCEPT !.arg_cache = Append(@, chr)])
    ELSE IF IsEscapedQuote(l, chr) THEN
        Fine([l EXCEPT !.escape_character = FALSE, !.arg_cache = Append(@, chr)])
    ELSE IF IsEscapedBrace(l, chr) THEN
        Fine([l EXCEPT !.escape_character = FALSE, !.arg_cache = Append(@, chr)])
    ELSE IF l.escape_character THEN
        Fine([l EXCEPT !.escape_character = FALSE,
                       !.arg_cache = PushEscaped(@, chr)])
    ELSE Fine([l EXCEPT !.arg_cache = Append(@, chr)])

\* a faulty variant: the arg cache is not cleared when a preamble string starts
LexReadingPreambleStringStart_NoClear(l, chr, line) ==
    IF IsWhitespace(chr) THEN Fine(l)
    ELSE IF chr = "\"" THEN Fine([l EXCEPT !.state = "ReadingPreambleString"])
    ELSE IF chr = "}" THEN
        Fine([Push(l, CloseEntry, line) EXCEPT !.state = "Default"])
    ELSE Unexpected(l, chr,
           "reading '\"' to start a preamble string or '}' to end preamble entry", line)

LexReadingPreambleStringStart(l, chr, line) ==
    IF IsWhitespace(chr) THEN Fine(l)
    ELSE IF chr = "\"" THEN
        Fine([l EXCEPT !.arg_cache = <<>>, !.state = "ReadingPreambleString"])
    ELSE IF chr = "}" THEN
        Fine([Push(l, CloseEntry, line) EXCEPT !.state = "Default"])
    ELSE Unexpected(l, chr,
           "reading '\"' to start a preamble string or '}' to end preamble entry", line)

LexReadingPreambleStringStartOrConcat(l, chr, line) ==
    IF IsWhitespace(chr) THEN Fine(l)
    ELSE IF chr = "\"" THEN
        Fine([l EXCEPT !.arg_cache = <<>>, !.state = "ReadingPreambleString"])
    ELSE IF chr = "}" THEN
        Fine([Push(l, CloseEntry, line) EXCEPT !.state = "Default"])
    ELSE IF chr = "#" THEN
        Fine([l EXCEPT !.state = "ReadingPreambleStringStart"])
    ELSE Unexpected(l, chr,
           "reading '\"' to start a preamble string or '}' to end preamble entry", line)

\* a faulty variant: an escaped '"' ends the string, the flag left set
LexReadingPreambleString_ClosesEscaped(l, chr, line) ==
    IF chr = "\\" /\ ~l.escape_character THEN
        Fine([l EXCEPT !.escape_character = TRUE])
    ELSE IF chr = "\"" THEN
        Fine([Push(l, Preamble(l.arg_cache), line)
                EXCEPT !.state = "ReadingPreambleStringStartOrConcat"])
    ELSE
        Fine([l EXCEPT !.arg_cache =
                           Append(IF l.escape_character THEN Append(@, "\\") ELSE @, chr),
                       !.escape_character = FALSE])

LexReadingPreambleString(l, chr, line) ==
    IF chr = "\\" /\ ~l.escape_character THEN
        Fine([l EXCEPT !.escape_character = TRUE])
    ELSE IF chr = "\"" /\ l.escape_character THEN
        Fine([l EXCEPT !.escape_character = FALSE, !.arg_cache = Append(@, "\"")])
    ELSE IF chr = "\"" /\ ~l.escape_character THEN
        Fine([Push(l, Preamble(l.arg_cache), line)
                EXCEPT !.state = "ReadingPreambleStringStartOrConcat"])
    ELSE
        Fine([l EXCEPT !.arg_cache =
                           Append(IF l.escape_character THEN Append(@, "\\") ELSE @, chr),
                       !.escape_character = FALSE])

\* a faulty variant: a chr that is neither a separator nor whitespace is refused
LexWaitForSep_Strict(l, chr, line) ==
    IF chr = "," THEN Fine([l EXCEPT !.state = "ReadingName"])
    ELSE IF chr = "}" THEN Fine([Push(l, CloseEntry, line) EXCEPT !.state = "Default"])
    ELSE IF IsWhitespace(chr) THEN Fine(l)
    ELSE Unexpected(l, chr, "expecting separator ',' between field", line)

LexWaitForSep(l, chr, line) ==
    IF chr = "," THEN Fine([l EXCEPT !.state = "ReadingName"])
    ELSE IF chr = "}" THEN Fine([Push(l, CloseEntry, line) EXCEPT !.state = "Default"])
    ELSE Fine(l)

\* `match self.state { ... }` for one chr, without the position advance
LexChr(l, chr, line) ==
    CASE l.state = "Default" -> LexDefault(l, chr, line)
      [] l.state = "ReadingType" -> LexReadingType(l, chr, line)
      [] l.state = "WaitForOpen" -> LexWaitForOpen(l, chr, line)
      [] l.state = "ReadingId" -> LexReadingId(l, chr, line)
      [] l.state = "WaitForComma" -> LexWaitForComma(l, chr, line)
      [] l.state = "ReadingName" -> LexReadingName(l, chr, line)
      [] l.state = "WaitForAssign" -> LexWaitForAssign(l, chr, line)
      [] l.state = "ReadingDataStart" -> LexReadingDataStart(l, chr, line)
      [] l.state = "ReadingData" -> LexReadingData(l, chr, line)
      [] l.state = "ReadingPreambleStringStart" ->
             LexReadingPreambleStringStart(l, chr, line)
      [] l.state = "ReadingPreambleStringStartOrConcat" ->
             LexReadingPreambleStringStartOrConcat(l, chr, line)
      [] l.state = "ReadingPreambleString" -> LexReadingPreambleString(l, chr, line)
      [] l.state = "WaitForSep" -> LexWaitForSep(l, chr, line)

-----------------------------------------------------------------------------
(* str::lines as lex() uses it *)

\* index of the first "\n" of s, or 0
FirstLF(s) ==
    IF \E i \in DOMAIN s : s[i] = "\n"
    THEN CHOOSE i \in DOMAIN s : s[i] = "\n" /\ \A j \in 1..(i - 1) : s[j] # "\n"
    ELSE 0

\* Lines::next, were the "\r" of a "\r\n" left on the line
NextLine_KeepsCR(rest) ==
    LET n == FirstLF(rest) IN
    IF n = 0 THEN [line |-> rest, rest |-> <<>>]
    ELSE [line |-> SubSeq(rest, 1, n - 1),
          rest |-> SubSeq(rest, n + 1, Len(rest))]

\* Lines::next on the non-empty remainder `rest`: the line up to the first
\* "\n" (or the end), without its "\n" or "\r\n", and what remains.
NextLine(rest) ==
    LET n == FirstLF(rest) IN
    IF n = 0 THEN [line |-> rest, rest |-> <<>>]
    ELSE LET upto == SubSeq(rest, 1, n - 1)
             line == IF upto # <<>> /\ upto[Len(upto)] = "\r"
                     THEN SubSeq(upto, 1, Len(upto) - 1) ELSE upto
         IN [line |-> line, rest |-> SubSeq(rest, n + 1, Len(rest))]

\* line.chars().chain(iter::once('\n'))
ChrAt(line, pos) == IF pos <= Len(line) THEN line[pos] ELSE "\n"

-----------------------------------------------------------------------------
(* BibEntries::parse: one arm of `match token` *)

MapGet(fields, name) == IF name \in DOMAIN fields THEN Some(fields[name]) ELSE None
MapInsert(fields, name, data) ==
    [n \in DOMAIN fields \cup {name} |-> IF n = name THEN data ELSE fields[n]]

\* a faulty variant: the map is not asked first, the insert replaces the stored value
OnFieldData_Overwrites(cur, cached, data, info) ==
    [current |-> [cur EXCEPT !.fields = MapInsert(@, cached, data)],
     name_cached |-> <<>>, err |-> None]

\* T::FieldData(data): what becomes of current and name_cached, and the error
OnFieldData(cur, cached, data, info) ==
    LET name == cached IN
    IF MapGet(cur.fields, name) # None
    THEN [current |-> cur, name_cached |-> <<>>,
          err |-> Some(DuplicateName(name, info))]
    ELSE [current |-> [cur EXCEPT !.fields = MapInsert(@, name, data)],
          name_cached |-> <<>>, err |-> None]

\* a faulty variant: the text of a Preamble token is stored in the entry,
\* as the text of an EntryId token is
OnPreamble_KeepsText(cur, cached, tok) ==
    [current |-> [cur EXCEPT !.id = @ \o tok.token.text],
     name_cached |-> cached, err |-> None]

\* T::Preamble: `match token` of parse() (parser.rs 67-90) has no arm for
\* this variant of Token; the arm is the one the specification's folding
\* rule gives: the token is consumed and the entry content is not touched.
OnPreamble(cur, cached, tok) ==
    [current |-> cur, name_cached |-> cached, err |-> None]

\* the arms that touch neither entries nor fail
OnToken(cur, cached, tok) ==
    CASE tok.token.type = "EntryType" ->
             [current |-> [cur EXCEPT !.kind = @ \o tok.token.text],
              name_cached |-> cached, err |-> None]
      [] tok.token.type = "EntryId" ->
             [current |-> [cur EXCEPT !.id = @ \o tok.token.text],
              name_cached |-> cached, err |-> None]
      [] tok.token.type = "FieldName" ->
             [current |-> cur, name_cached |-> tok.token.text, err |-> None]
      [] tok.token.type = "FieldData" ->
             OnFieldData(cur, cached, tok.token.text, tok.info)
      [] tok.token.type = "Preamble" -> OnPreamble(cur, cached, tok)
      [] OTHER -> [current |-> cur, name_cached |-> cached, err |-> None]

-----------------------------------------------------------------------------
(* Results of BibEntries::next *)

ROk(entry) == [tag |-> "Ok", entry |-> entry]
RErr(error) == [tag |-> "Err", error |-> error]
RNone == [tag |-> "None"]

\* the tokens of the queue entries q[from..]
TokensFrom(q, from) == [i \in 1..(Len(q) + 1 - from) |-> q[i + from - 1].token]

\* a faulty variant: the pending state is not looked at, EndOfFile is always pushed
LexAtEnd_AlwaysEndOfFile(l) ==
    [l |-> [l EXCEPT !.next_tokens =
                Append(@, [token |-> EndOfFile,
                           info |-> [lineno |-> l.lineno, colno |-> 0,
                                     current_line |-> <<>>, current_id |-> None]]),
                     !.eof = TRUE],
     err |-> None]

\* a faulty variant: EndOfFile is pushed twice
LexAtEnd_TwoEndOfFile(l) ==
    IF l.state # "Default"
    THEN [l |-> l, err |-> Some(UnexpectedEOF(StateDescription(l.state)))]
    ELSE LET eof == [token |-> EndOfFile,
                     info |-> [lineno |-> l.lineno, colno |-> 0,
                               current_line |-> <<>>, current_id |-> None]]
         IN [l |-> [l EXCEPT !.next_tokens = Append(Append(@, eof), eof),
                             !.eof = TRUE],
             err |-> None]

\* lex(), after the loops: the source has ended
LexAtEnd(l) ==
    IF l.state # "Default"
    THEN [l |-> l, err |-> Some(UnexpectedEOF(StateDescription(l.state)))]
    ELSE [l |-> [l EXCEPT !.next_tokens =
                     Append(@, [token |-> EndOfFile,
                                info |-> [lineno |-> l.lineno, colno |-> 0,
                                          current_line |-> <<>>, current_id |-> None]]),
                          !.eof = TRUE],
          err |-> None]

\* lex(): `self.colno += 1` after a chr, and the end of the line after its last
Advance(l, lastOfLine) ==
    IF lastOfLine
    THEN [l EXCEPT !.lineno = @ + 1, !.colno = 0]
    ELSE [l EXCEPT !.colno = @ + 1]

-----------------------------------------------------------------------------
(* Bounds and the sources the iterator is run on *)

MaxPulls == 4        \* calls of BibEntries::next per run
MaxBraceLen == 4     \* length of a brace-delimited value over {A, {, }}
MaxEscLen == 3       \* length of a value with backslashes and quotes in it
MaxBlocks == 2       \* blocks per source
MaxSegs == 2         \* quoted segments per preamble block

Strings(alphabet, n) == UNION {[1..m -> alphabet] : m \in 0..n}
Prefixes(s) == {SubSeq(s, 1, n) : n \in 0..Len(s)}

\* @kind{id, name = {data}}
Minimal(kind, id, name, data) ==
    <<"@">> \o kind \o <<"{">> \o id \o <<",", " ">> \o name
        \o <<" ", "=", " ", "{">> \o data \o <<"}", "}">>

UpperPreamble == <<"P","R","E","A","M","B","L","E">>
Kinds == {<<"b">>, <<>>, <<"B", "2", EAcute>>, PreambleWord,
          <<"P","r","e","a","m","b","l","e">>}
Ids == {<<"i">>, <<>>, <<"w", ":", "{", "\"">>}
Names == {<<"a">>, <<>>, <<"n", "}", "@">>}
PlainDatas == {<<>>, <<"x">>, <<"x", " ", " ", "y">>, <<"1", "\n", " ", "2">>,
               <<"1", "\r", "\n", "2">>, <<EAcute, ",", "=", "@">>,
               <<"1", "\r", "\n", "\t", "\n", " ", "2">>}

\* @b{i,a={data}} and @b{i,a="data"}
BraceField(data) ==
    <<"@", "b", "{", "i", ",", "a", "=", "{">> \o data \o <<"}", "}">>
QuoteField(data) ==
    <<"@", "b", "{", "i", ",", "a", "=", "\"">> \o data \o <<"\"", "}">>

\* A {X} and {Y}
TwoGroups == <<"A", " ", "{", "X", "}", " ", "a", "n", "d", " ", "{", "Y", "}">>
\* \"\} : an escaped quote, then an escaped closing brace
BothEscapes == <<"\\", "\"", "\\", "}">>

BraceDatas == Strings({"A", "{", "}"}, MaxBraceLen) \cup {TwoGroups}
EscDatas == Strings({"x", "{", "}", "\\", "\""}, MaxEscLen) \cup {BothEscapes}

\* Blocks, by name: the text of each and, for a well-formed one, the entry
\* written in it.
WellFormedBlocks == {"book", "spaced", "preamble", "PREAMBLE", "spaced preamble"}
BlockNames == WellFormedBlocks \cup {"duplicate", "garbage", "truncated"}

BlockText(b) ==
    CASE b = "book" -> <<"@","b","{","i",",","a","=","{","1","}","}">>
      [] b = "spaced" ->
             <<"@","c"," ","{","j",",","a","=","{","1","}",",","d","=","\"","2","\"","}">>
      [] b = "preamble" ->
             <<"@","p","r","e","a","m","b","l","e","{","\"","x","\"","}">>
      [] b = "PREAMBLE" -> <<"@","P","R","E","A","M","B","L","E","{","}">>
      [] b = "spaced preamble" ->
             <<"@","p","r","e","a","m","b","l","e"," ","{","}">>
      [] b = "duplicate" ->
             <<"@","b","{","d",",","a","=","{","1","}",",","a","=","{","2","}","}">>
      [] b = "garbage" -> <<"x">>
      [] b = "truncated" -> <<"@","b","{","t",",","a","=","{","1">>

BlockEntry(b) ==
    CASE b = "book" -> [kind |-> <<"b">>, id |-> <<"i">>,
                        fields |-> (<<"a">> :> <<"1">>)]
      [] b = "spaced" -> [kind |-> <<"c">>, id |-> <<"j">>,
                          fields |-> (<<"a">> :> <<"1">>) @@ (<<"d">> :> <<"2">>)]
      [] b = "preamble" -> [kind |-> PreambleWord, id |-> <<>>, fields |-> <<>>]
      [] b = "PREAMBLE" -> [kind |-> UpperPreamble, id |-> <<>>, fields |-> <<>>]
      [] b = "spaced preamble" -> [kind |-> PreambleWord, id |-> <<>>, fields |-> <<>>]

Docs == UNION {[1..m -> BlockNames] : m \in 1..MaxBlocks}

\* the blocks of a source, separated by a line break
RECURSIVE RenderDoc(_)
RenderDoc(doc) ==
    IF Len(doc) = 1 THEN BlockText(doc[1])
    ELSE BlockText(doc[1]) \o <<"\n">> \o RenderDoc(Tail(doc))

\* @preamble{ "s1" # "s2" # ... }, pad being the whitespace between the parts
PreambleKinds == {PreambleWord, UpperPreamble}
Segments == {<<"x">>, <<>>, <<"}", "#", "{">>, <<"q", "\\", "\"">>}
SegLists == UNION {[1..m -> Segments] : m \in 0..MaxSegs}
Pads == {<<>>, <<" ">>}

RECURSIVE RenderSegs(_, _)
RenderSegs(segs, pad) ==
    IF segs = <<>> THEN <<>>
    ELSE <<"\"">> \o segs[1] \o <<"\"">> \o pad
           \o (IF Len(segs) > 1 THEN <<"#">> \o pad ELSE <<>>)
           \o RenderSegs(Tail(segs), pad)

RenderPreamble(kind, segs, pad) ==
    <<"@">> \o kind \o <<"{">> \o pad \o RenderSegs(segs, pad) \o <<"}">>

\* the entry of the doc comment of Token (lexer.rs)
DocExample ==
    <<"@","B","o","o","k","{","w","o","r","k","s",":","4",",","\n"," "," ",
    "a","u","t","h","o","r"," "," "," "," "," ","="," ","{","S","h","a","k",
    "e","s","p","e","a","r","e",","," ","W","i","l","l","i","a","m","}",",",
    "\n"," "," ","t","i","t","l","e"," "," "," "," "," "," ","="," ","{",
    "S","o","n","n","e","t","s","}",",","\n","}","\n">>
\* @book{id, a = {unterminated
TruncatedExample ==
    <<"@","b","o","o","k","{","i","d",","," ","a"," ","="," ","{","u","n",
    "t","e","r","m","i","n","a","t","e","d">>
\* @b {i ,a ={x},c="y"}
FullEntry ==
    <<"@","b"," ","{","i"," ",",","a"," ","=","{","x","}",",","c","=","\"",
    "y","\"","}">>
\* @preamble{"x" # "y"}
FullPreamble ==
    <<"@","p","r","e","a","m","b","l","e","{","\"","x","\""," ","#"," ",
    "\"","y","\"","}">>

\* @b{ i ,a ={x}} with NO-BREAK SPACE for each of the three spaces
NbspEntry ==
    <<"@","b","{",NBSP,"i",NBSP,",","a",NBSP,"=","{","x","}","}">>
\* @b{ke,a={x}} and @b{i,ae={x}} with e acute for the e
AccentId == <<"@","b","{","k",EAcute,",","a","=","{","x","}","}">>
AccentName == <<"@","b","{","i",",","a",EAcute,"=","{","x","}","}">>

\* @b{i} and @b{i,} : entries without fields
IdOnly == <<"@","b","{","i","}">>
IdAndComma == <<"@","b","{","i",",","}">>
\* @PREAMBLE{} and, on the next line, @c {}
EmptyAfterPreamble ==
    <<"@","P","R","E","A","M","B","L","E","{","}","\n","@","c"," ","{","}">>

RawTexts ==
    Prefixes(FullEntry) \cup Prefixes(FullPreamble)
        \cup {DocExample, TruncatedExample, <<"x">>, <<" ", "\n", "\t">>,
              NbspEntry, AccentId, AccentName, IdOnly, IdAndComma,
              EmptyAfterPreamble}

-----------------------------------------------------------------------------
(* The state machine *)

InitWith(inp, text) ==
    /\ input = inp
    /\ src = text
    /\ iter = NewLexingIterator
    /\ entries = <<>>
    /\ current = NewBibEntry
    /\ name_cached = <<>>
    /\ finished = FALSE
    /\ pc = "idle"
    /\ lex_line = <<>>
    /\ lex_rest = <<>>
    /\ lex_pos = 1
    /\ pulls = 0
    /\ yielded = <<>>
    /\ emitted = <<>>
    /\ call_src = <<>>
    /\ op = "none"
    /\ ret = <<>>

\* Parser::from_str(text) and Parser::iter on each source
Init ==
    \/ \E k \in Kinds, i \in Ids, n \in Names, d \in PlainDatas :
           InitWith([family |-> "minimal", kind |-> k, id |-> i,
                     name |-> n, data |-> d], Minimal(k, i, n, d))
    \/ \E d \in BraceDatas \cup EscDatas :
           InitWith([family |-> "brace", data |-> d], BraceField(d))
    \/ \E d \in EscDatas :
           InitWith([family |-> "quote", data |-> d], QuoteField(d))
    \/ \E doc \in Docs :
           InitWith([family |-> "blocks", blocks |-> doc], RenderDoc(doc))
    \/ \E k \in PreambleKinds, segs \in SegLists, pad \in Pads :
           InitWith([family |-> "preamble", kind |-> k, segs |-> segs,
                     pad |-> pad], RenderPreamble(k, segs, pad))
    \/ \E t \in RawTexts :
           InitWith([family |-> "raw", text |-> t], t)

\* the caller pulls: BibEntries::next is entered
Call ==
    /\ pc = "idle"
    /\ pulls < MaxPulls
    /\ pulls' = pulls + 1
    /\ pc' = "next"
    /\ UNCHANGED <<input, src, iter, entries, current, name_cached, finished,
                   lex_line, lex_rest, lex_pos, yielded, emitted>>
    /\ UNCHANGED typesvars

\* BibEntries::next: `if self.finished { return None; }`
NextReturnNone ==
    /\ pc = "next"
    /\ finished
    /\ yielded' = Append(yielded, RNone)
    /\ pc' = "idle"
    /\ UNCHANGED <<input, src, iter, entries, current, name_cached, finished,
                   lex_line, lex_rest, lex_pos, pulls, emitted>>
    /\ UNCHANGED typesvars

\* BibEntries::next: `if let Some(entry) = self.entries.pop_front()`
NextReturnEntry ==
    /\ pc = "next"
    /\ ~finished
    /\ entries # <<>>
    /\ yielded' = Append(yielded, ROk(Head(entries)))
    /\ entries' = Tail(entries)
    /\ pc' = "idle"
    /\ UNCHANGED <<input, src, iter, current, name_cached, finished,
                   lex_line, lex_rest, lex_pos, pulls, emitted>>
    /\ UNCHANGED typesvars

\* BibEntries::next calls parse, which calls LexingIterator::next
NextParse ==
    /\ pc = "next"
    /\ ~finished
    /\ entries = <<>>
    /\ pc' = "parse"
    /\ UNCHANGED <<input, src, iter, entries, current, name_cached, finished,
                   lex_line, lex_rest, lex_pos, pulls, yielded, emitted>>
    /\ UNCHANGED typesvars

\* LexingIterator::next pops a token and parse consumes it
ParseToken ==
    /\ pc = "parse"
    /\ iter.next_tokens # <<>>
    /\ LET tok == Head(iter.next_tokens)
           r == OnToken(current, name_cached, tok)
       IN /\ iter' = [iter EXCEPT !.next_tokens = Tail(@)]
          /\ IF tok.token.type = "CloseEntry"
             THEN /\ entries' = Append(entries, current)
                  /\ current' = NewBibEntry
                  /\ name_cached' = name_cached
             ELSE /\ entries' = entries
                  /\ current' = r.current
                  /\ name_cached' = r.name_cached
          /\ IF r.err # None
             THEN /\ yielded' = Append(yielded, RErr(r.err[1]))
                  /\ pc' = "idle"
             ELSE /\ yielded' = yielded
                  /\ pc' = "next"
    /\ UNCHANGED <<input, src, finished, lex_line, lex_rest, lex_pos, pulls, emitted>>
    /\ UNCHANGED typesvars

\* LexingIterator::next returns None: `None => self.finished = true`
ParseNone ==
    /\ pc = "parse"
    /\ iter.next_tokens = <<>>
    /\ iter.eof
    /\ finished' = TRUE
    /\ pc' = "next"
    /\ UNCHANGED <<input, src, iter, entries, current, name_cached,
                   lex_line, lex_rest, lex_pos, pulls, yielded, emitted>>
    /\ UNCHANGED typesvars

\* LexingIterator::next calls lex, which starts `for line in self.src.lines()`
LexBegin ==
    /\ pc = "parse"
    /\ iter.next_tokens = <<>>
    /\ ~iter.eof
    /\ IF src = <<>>
       THEN /\ pc' = "lex_end"
            /\ UNCHANGED <<lex_line, lex_rest>>
       ELSE /\ pc' = "lex"
            /\ lex_line' = NextLine(src).line
            /\ lex_rest' = NextLine(src).rest
    /\ lex_pos' = 1
    /\ UNCHANGED <<input, src, iter, entries, current, name_cached, finished,
                   pulls, yielded, emitted>>
    /\ UNCHANGED typesvars

\* lex(): one chr through the state machine
LexStep ==
    /\ pc = "lex"
    /\ LET chr == ChrAt(lex_line, lex_pos)
           r == LexChr(iter, chr, lex_line)
           last == lex_pos = Len(lex_line) + 1
       IN IF r.err # None
          THEN /\ yielded' = Append(yielded, RErr(r.err[1]))
               /\ pc' = "idle"
               /\ iter' = r.l
               /\ UNCHANGED <<lex_line, lex_rest, lex_pos, emitted>>
          ELSE /\ iter' = Advance(r.l, last)
               /\ emitted' = emitted \o
                      TokensFrom(r.l.next_tokens, Len(iter.next_tokens) + 1)
               /\ yielded' = yielded
               /\ IF ~last
                  THEN /\ lex_pos' = lex_pos + 1
                       /\ pc' = "lex"
                       /\ UNCHANGED <<lex_line, lex_rest>>
                  ELSE IF lex_rest = <<>>
                  THEN /\ pc' = "lex_end"
                       /\ UNCHANGED <<lex_line, lex_rest, lex_pos>>
                  ELSE /\ pc' = "lex"
                       /\ lex_line' = NextLine(lex_rest).line
                       /\ lex_rest' = NextLine(lex_rest).rest
                       /\ lex_pos' = 1
    /\ UNCHANGED <<input, src, entries, current, name_cached, finished, pulls>>
    /\ UNCHANGED typesvars

\* lex(): the source has ended
LexEnd ==
    /\ pc = "lex_end"
    /\ LET r == LexAtEnd(iter)
       IN /\ iter' = r.l
          /\ emitted' = emitted \o
                 TokensFrom(r.l.next_tokens, Len(iter.next_tokens) + 1)
          /\ IF r.err # None
             THEN /\ yielded' = Append(yielded, RErr(r.err[1]))
                  /\ pc' = "idle"
             ELSE /\ yielded' = yielded
                  /\ pc' = "parse"
    /\ UNCHANGED <<input, src, entries, current, name_cached, finished,
                   lex_line, lex_rest, lex_pos, pulls>>
    /\ UNCHANGED typesvars

Next ==
    \/ Call
    \/ NextReturnNone
    \/ NextReturnEntry
    \/ NextParse
    \/ ParseToken
    \/ ParseNone
    \/ LexBegin
    \/ LexStep
    \/ LexEnd

Spec == Init /\ [][Next]_vars

-----------------------------------------------------------------------------
(* BibEntry's functions on field values (types.rs) *)

EmDash == "U+2014"      \* EM DASH
EnDash == "U+2013"      \* EN DASH
Chi == "U+03C7"         \* GREEK SMALL LETTER CHI

\* degroup: the body of `for chr in src.chars()`; st is the locals
\* result, level and escape
DegroupChr(st, chr) ==
    IF chr = "{" /\ ~st.escape THEN [st EXCEPT !.level = @ + 1]
    ELSE IF chr = "}" /\ ~st.escape THEN [st EXCEPT !.level = @ - 1]
    ELSE IF chr = "\\" THEN
        [st EXCEPT !.result = IF st.escape THEN Append(@, chr) ELSE @,
                   !.escape = ~@]
    ELSE [st EXCEPT !.result = Append(IF st.escape THEN Append(@, "\\") ELSE @, chr),
                    !.escape = FALSE]

\* degroup: `for chr in src.chars()`
RECURSIVE DegroupLoop(_, _)
DegroupLoop(st, s) ==
    IF s = <<>> THEN st ELSE DegroupLoop(DegroupChr(st, Head(s)), Tail(s))

\* BibEntry::degroup
Degroup(s) ==
    LET st == DegroupLoop([result |-> <<>>, level |-> 0, escape |-> FALSE], s)
    IN IF st.level = 0 THEN st.result ELSE s

\* reduce_whitespace: the body of `for chr in src.chars()`; st is the locals
\* result and was_whitespace
ReduceWhitespaceChr(st, chr) ==
    IF IsWhitespace(chr)
    THEN [result |-> IF ~st.was_whitespace THEN Append(st.result, chr) ELSE st.result,
          was_whitespace |-> TRUE]
    ELSE [st EXCEPT !.result = Append(@, chr)]

\* reduce_whitespace: `for chr in src.chars()`
RECURSIVE ReduceWhitespaceLoop(_, _)
ReduceWhitespaceLoop(st, s) ==
    IF s = <<>> THEN st
    ELSE ReduceWhitespaceLoop(ReduceWhitespaceChr(st, Head(s)), Tail(s))

\* BibEntry::reduce_whitespace
ReduceWhitespace(s) ==
    ReduceWhitespaceLoop([result |-> <<>>, was_whitespace |-> FALSE], s).result

\* str::replace: every non-overlapping match of pattern, from the left
RECURSIVE Replace(_, _, _)
Replace(s, pattern, replacement) ==
    IF Len(s) < Len(pattern) THEN s
    ELSE IF SubSeq(s, 1, Len(pattern)) = pattern
    THEN replacement \o Replace(SubSeq(s, Len(pattern) + 1, Len(s)), pattern, replacement)
    ELSE <<Head(s)>> \o Replace(Tail(s), pattern, replacement)

LaTeX == <<"L", "a", "T", "e", "X">>
LaTeChi == <<"L", "a", "T", "e", Chi>>

\* unicode_data: `let replacements = [...]`
Replacements ==
    << [pattern |-> <<"-", "-", "-">>, replacement |-> <<EmDash>>],
       [pattern |-> <<"-", "-">>, replacement |-> <<EnDash>>],
       [pattern |-> <<"\\">> \o LaTeX \o <<"{", "}">>, replacement |-> LaTeChi],
       [pattern |-> <<"{", "\\">> \o LaTeX \o <<"}">>, replacement |-> LaTeChi],
       [pattern |-> <<"\\">> \o LaTeX, replacement |-> LaTeChi],
       [pattern |-> <<"\\", "\"">>, replacement |-> <<"\"">>],
       [pattern |-> <<"\\", "&">>, replacement |-> <<"&">>],
       [pattern |-> <<"~">>, replacement |-> <<NBSP>>] >>

\* unicode_data: `for (pattern, replacement) in replacements.iter()`, from
\* the n-th replacement on
RECURSIVE ReplaceAll(_, _)
ReplaceAll(s, n) ==
    IF n > Len(Replacements) THEN s
    ELSE ReplaceAll(Replace(s, Replacements[n].pattern, Replacements[n].replacement),
                    n + 1)

\* BibEntry::unicode_data
UnicodeData(entry, field_name) ==
    LET data == MapGet(entry.fields, field_name) IN
    IF data = None THEN None
    ELSE Some(ReduceWhitespace(Degroup(ReplaceAll(data[1], 1))))

MaxTextLen == 4      \* length of the strings the functions are called on

\* a message.  \nBest  regards
Message ==
    <<"a"," ","m","e","s","s","a","g","e","."," "," ","\n",
      "B","e","s","t"," "," ","r","e","g","a","r","d","s">>
\* Written by {{Lukas} and {tajpulo}}
WrittenBy ==
    <<"W","r","i","t","t","e","n"," ","b","y"," ","{","{","L","u","k","a","s","}",
      " ","a","n","d"," ","{","t","a","j","p","u","l","o","}","}">>
\* a b c
ThreeWords == <<"a", " ", "b", " ", "c">>
\* \LaTeX{} -- a~b \& \"c\"
Markup ==
    <<"\\">> \o LaTeX \o <<"{", "}", " ", "-", "-", " ", "a", "~", "b", " ",
      "\\", "&", " ", "\\", "\"", "c", "\\", "\"">>

TextAlphabet == {"a", " ", "\n", "{", "}", "\\", "-", "~"}
Texts == Strings(TextAlphabet, MaxTextLen)
             \cup {Message, WrittenBy, ThreeWords, Markup}

\* the names unicode_data is asked for: the field that is there, one that is not
FieldNames == {<<"f">>, <<"g">>}

\* an entry whose field f holds the text, and no call made yet
InitTypes ==
    /\ \E t \in Texts : call_src = t
    /\ op = "none"
    /\ ret = <<>>
    /\ input = [family |-> "types"]
    /\ src = <<>>
    /\ iter = NewLexingIterator
    /\ entries = <<>>
    /\ current = [NewBibEntry EXCEPT !.fields = (<<"f">> :> call_src)]
    /\ name_cached = <<>>
    /\ finished = FALSE
    /\ pc = "idle"
    /\ lex_line = <<>>
    /\ lex_rest = <<>>
    /\ lex_pos = 1
    /\ pulls = 0
    /\ yielded = <<>>
    /\ emitted = <<>>

lexvars == <<input, src, iter, entries, current, name_cached, finished, pc,
             lex_line, lex_rest, lex_pos, pulls, yielded, emitted>>

\* BibEntry::degroup(call_src)
CallDegroup ==
    /\ op = "none"
    /\ op' = "degroup"
    /\ ret' = Degroup(call_src)
    /\ UNCHANGED <<call_src, lexvars>>

\* BibEntry::reduce_whitespace(call_src)
CallReduceWhitespace ==
    /\ op = "none"
    /\ op' = "reduce_whitespace"
    /\ ret' = ReduceWhitespace(call_src)
    /\ UNCHANGED <<call_src, lexvars>>

\* entry.unicode_data(field_name)
CallUnicodeData ==
    /\ op = "none"
    /\ op' = "unicode_data"
    /\ \E field_name \in FieldNames : ret' = UnicodeData(current, field_name)
    /\ UNCHANGED <<call_src, lexvars>>

NextTypes ==
    \/ CallDegroup
    \/ CallReduceWhitespace
    \/ CallUnicodeData

SpecTypes == InitTypes /\ [][NextTypes]_vars

-----------------------------------------------------------------------------
(* Vocabulary of the properties *)

IsPrefix(s, t) == Len(s) <= Len(t) /\ SubSeq(t, 1, Len(s)) = s

\* what BibEntries::next has returned so far is `expected`, in order, and
\* after that nothing but None
YieldedFollows(expected) ==
    \A j \in DOMAIN yielded :
        yielded[j] = IF j <= Len(expected) THEN expected[j] ELSE RNone

HasCRLF(s) == \E j \in 1..(Len(s) - 1) : s[j] = "\r" /\ s[j + 1] = "\n"
IsPreambleKind(kind) == ToLowercase(kind) = PreambleWord

MinimalEntry == [kind |-> input.kind, id |-> input.id,
                 fields |-> (input.name :> input.data)]

\* C1 (as claimed): for every source @kind{id, name = {data}} with kind
\* alphanumeric, id and name ASCII without whitespace, ',' or '=', and data
\* without braces, quotes or backslashes, the sequence yields exactly one
\* Ok(Entry) with that kind, id and fields = {name: data}, and then None.
C1_MinimalEntry_AsClaimed ==
    input.family = "minimal" => YieldedFollows(<<ROk(MinimalEntry)>>)

\* C1 (amended): the same, for every such source whose kind is not
\* "preamble" (ignoring case) and whose data holds no CR LF line break.
C1_MinimalEntry ==
    (/\ input.family = "minimal"
     /\ ~IsPreambleKind(input.kind)
     /\ ~HasCRLF(input.data))
        => YieldedFollows(<<ROk(MinimalEntry)>>)

\* a minimal source with a multi-line value has yielded its entry and then None
C1_Witness ==
    /\ input.family = "minimal"
    /\ input.kind = <<"B", "2", EAcute>>
    /\ input.data = <<"1", "\n", " ", "2">>
    /\ yielded = <<ROk(MinimalEntry), RNone>>

IsErr(r) == r.tag = "Err"
IsOk(r) == r.tag = "Ok"

\* C2: once BibEntries::next has returned an Err, or None, every later call
\* returns None.
C2_StopsAfterError ==
    \A j \in DOMAIN yielded : \A k \in DOMAIN yielded :
        (j < k /\ (IsErr(yielded[j]) \/ yielded[j] = RNone)) => yielded[k] = RNone

\* the sources that hold the block with a repeated field name, whose id is d
HasDuplicateBlock ==
    input.family = "blocks" /\ \E j \in DOMAIN input.blocks : input.blocks[j] = "duplicate"
IsDuplicateNameOf(r, name) ==
    IsErr(r) /\ r.error.kind = "DuplicateName" /\ r.error.name = name

\* C3: if a field name occurs twice within one entry, the sequence yields a
\* DuplicateName error carrying that name, and no Entry for that record is
\* ever yielded, neither before the error nor on a later pull.
C3_DuplicateYieldsNoEntry ==
    /\ (input.family = "blocks" /\ input.blocks = <<"duplicate">> /\ yielded # <<>>)
           => IsDuplicateNameOf(yielded[1], <<"a">>)
    /\ HasDuplicateBlock =>
           \A j \in DOMAIN yielded : IsOk(yielded[j]) => yielded[j].entry.id # <<"d">>

\* C4: a value once stored under a field name in the in-progress entry is
\* never replaced: whatever step is taken, every name that stays in the map
\* keeps its value (a FieldData token whose name is present is refused).
C4_NoOverwrite ==
    [][\A n \in DOMAIN current.fields :
           n \in DOMAIN current'.fields => current'.fields[n] = current.fields[n]]_vars

\* the second FieldData of the repeated name was refused with DuplicateName
\* and the first value is still the one stored
C4_Witness ==
    /\ input.family = "blocks"
    /\ input.blocks = <<"duplicate">>
    /\ yielded # <<>>
    /\ IsDuplicateNameOf(yielded[Len(yielded)], <<"a">>)
    /\ current.fields = (<<"a">> :> <<"1">>)

\* number of j <= n with s[j] = chr
Count(s, chr, n) == Cardinality({j \in 1..n : s[j] = chr})

\* every '{' of s has its '}' after it and the other way round
Balanced(s) ==
    /\ \A n \in 1..Len(s) : Count(s, "}", n) <= Count(s, "{", n)
    /\ Count(s, "}", Len(s)) = Count(s, "{", Len(s))

HasNoEscapes(s) == \A j \in DOMAIN s : s[j] \notin {"\\", "\""}

\* the tokens of @b{i,a={data}} and @b{i,a="data"} when the value is `text`
FieldTokens(text) ==
    <<EntrySymbol, EntryType(<<"b">>), OpenEntry, EntryId(<<"i">>),
      FieldName(<<"a">>), FieldData(text), CloseEntry, EndOfFile>>

\* C5: in a brace-delimited value an unescaped '}' ends the value only when
\* the brace depth is 0, and every inner '{'...'}' pair is kept verbatim: for
\* @b{i,a={data}} with balanced braces in data (no backslash, no quote), the
\* tokens are those of one field whose FieldData is data, and no error.
C5_NestedBraces ==
    (input.family = "brace" /\ Balanced(input.data) /\ HasNoEscapes(input.data))
        => /\ IsPrefix(emitted, FieldTokens(input.data))
           /\ \A j \in DOMAIN yielded : ~IsErr(yielded[j])

\* A {X} and {Y} has been lexed to the end
C5_Witness ==
    /\ input.family = "brace"
    /\ input.data = TwoGroups
    /\ emitted = FieldTokens(TwoGroups)

\* C6: when the source ends while the lexer state is not Default, lex()
\* returns UnexpectedEOF carrying that state's description ("reading field
\* data" in ReadingData), pushes no token and does not set eof; when it ends
\* in Default, lex() pushes EndOfFile, sets eof and returns no error.
C6_EndOfInput ==
    [][pc = "lex_end" =>
          IF iter.state # "Default"
          THEN /\ yielded' = Append(yielded,
                       RErr(UnexpectedEOF(StateDescription(iter.state))))
               /\ iter.state = "ReadingData" =>
                      yielded'[Len(yielded')].error.action = "reading field data"
               /\ emitted' = emitted
               /\ iter'.next_tokens = iter.next_tokens
               /\ ~iter'.eof
          ELSE /\ emitted' = Append(emitted, EndOfFile)
               /\ iter'.next_tokens # <<>>
               /\ iter'.next_tokens[Len(iter'.next_tokens)].token = EndOfFile
               /\ iter'.eof
               /\ yielded' = yielded]_vars

\* @book{id, a = {unterminated has given UnexpectedEOF("reading field data")
C6_Witness ==
    /\ src = TruncatedExample
    /\ yielded = <<RErr(UnexpectedEOF("reading field data"))>>
    /\ EndOfFile \notin Range(emitted)

\* the chr lex() is about to feed to the state machine
CurrentChr == ChrAt(lex_line, lex_pos)

InQuotedValue ==
    pc = "lex" /\ iter.state = "ReadingData" /\ iter.dblquotes_terminator

AllWellFormed ==
    input.family = "blocks" /\ \A j \in DOMAIN input.blocks : input.blocks[j] \in WellFormedBlocks

\* C8: for a source of k well-formed blocks (entries and preamble blocks in
\* any order, with or without whitespace before '{') separated by
\* whitespace, the sequence yields exactly k Ok entries in source order, the
\* i-th with the kind, id and fields written in the i-th block, then None.
C8_BlocksInOrder ==
    AllWellFormed =>
        YieldedFollows([j \in DOMAIN input.blocks |-> ROk(BlockEntry(input.blocks[j]))])

\* the tokens the doc comment of Token lists for DocExample
DocTokens ==
    <<EntrySymbol, EntryType(<<"B","o","o","k">>), OpenEntry,
      EntryId(<<"w","o","r","k","s",":","4">>),
      FieldName(<<"a","u","t","h","o","r">>),
      FieldData(<<"S","h","a","k","e","s","p","e","a","r","e",","," ",
                  "W","i","l","l","i","a","m">>),
      FieldName(<<"t","i","t","l","e">>),
      FieldData(<<"S","o","n","n","e","t","s">>),
      CloseEntry>>

\* C9: for the entry of the lexer's doc comment, whose last field is followed
\* by a comma before the closing '}', the lexer emits the tokens listed there,
\* ending in CloseEntry, and no error.
C9_TrailingComma ==
    src = DocExample =>
        /\ IsPrefix(emitted, Append(DocTokens, EndOfFile))
        /\ \A j \in DOMAIN yielded : ~IsErr(yielded[j])

\* the content of a quoted preamble segment: its text with \" read as "
RECURSIVE SegContent(_)
SegContent(seg) ==
    IF seg = <<>> THEN <<>>
    ELSE IF Len(seg) >= 2 /\ seg[1] = "\\" /\ seg[2] = "\""
    THEN <<"\"">> \o SegContent(SubSeq(seg, 3, Len(seg)))
    ELSE <<seg[1]>> \o SegContent(Tail(seg))

PreambleTokens(kind, segs) ==
    <<EntrySymbol, EntryType(kind), OpenEntry>>
        \o [j \in DOMAIN segs |-> Preamble(SegContent(segs[j]))]
        \o <<CloseEntry, EndOfFile>>

\* C10: for @preamble{ s1 # s2 # ... # sn } with n >= 0 quoted segments the
\* lexer emits EntrySymbol, EntryType, OpenEntry, then exactly n Preamble
\* tokens holding the contents of the segments in source order, then
\* CloseEntry; with n = 0 CloseEntry follows OpenEntry; no error is raised.
C10_PreambleSegments ==
    input.family = "preamble" =>
        /\ IsPrefix(emitted, PreambleTokens(input.kind, input.segs))
        /\ \A j \in DOMAIN yielded : ~IsErr(yielded[j])

\* @PREAMBLE{ "q\"" # "}#{" } has been lexed to the end
C10_Witness ==
    /\ input.family = "preamble"
    /\ input.kind = UpperPreamble
    /\ input.segs = << <<"q", "\\", "\"">>, <<"}", "#", "{">> >>
    /\ input.pad = <<" ">>
    /\ emitted = PreambleTokens(UpperPreamble, input.segs)

PreambleEntry == [kind |-> input.kind, id |-> <<>>, fields |-> <<>>]

\* the token parse() is about to consume is a Preamble token
AtPreambleToken ==
    /\ pc = "parse"
    /\ iter.next_tokens # <<>>
    /\ Head(iter.next_tokens).token.type = "Preamble"

NoPosition(l) == [l EXCEPT !.lineno = 0, !.colno = 0]

\* C12: in WaitForSep every chr other than ',' and '}' (whitespace or not) is
\* consumed without an error, without a token and without a change of the
\* lexer state or of its accumulators; ',' leads to ReadingName without a
\* token, '}' emits CloseEntry and leads to Default.
C12_WaitForSepTolerant ==
    [][(pc = "lex" /\ iter.state = "WaitForSep") =>
          /\ yielded' = yielded
          /\ IF CurrentChr = ","
             THEN /\ iter'.state = "ReadingName"
                  /\ emitted' = emitted
             ELSE IF CurrentChr = "}"
             THEN /\ iter'.state = "Default"
                  /\ emitted' = Append(emitted, CloseEntry)
             ELSE /\ NoPosition(iter') = NoPosition(iter)
                  /\ emitted' = emitted]_vars

\* in @b{i,a={}A}} the A after the value was passed over in WaitForSep and
\* the '}' after it closed the entry
C12_Witness ==
    /\ input.family = "brace"
    /\ input.data = <<"}", "A">>
    /\ emitted = <<EntrySymbol, EntryType(<<"b">>), OpenEntry, EntryId(<<"i">>),
                   FieldName(<<"a">>), FieldData(<<>>), CloseEntry>>

\* C13: a DuplicateName error identifies the enclosing entry by its id: the
\* entry id carried in the error's position (the one its message prints)
\* is the citation key (EntryId) of the entry in which the name repeats.
C13_DuplicateNamesEntryId ==
    [][(/\ Len(yielded') = Len(yielded) + 1
        /\ IsErr(yielded'[Len(yielded')])
        /\ yielded'[Len(yielded')].error.kind = "DuplicateName")
          => yielded'[Len(yielded')].error.info.current_id = Some(current.id)]_vars

\* s with every maximal run of whitespace replaced by one space
RECURSIVE Collapsed(_)
Collapsed(s) ==
    IF s = <<>> THEN <<>>
    ELSE IF ~IsWhitespace(s[1]) THEN <<s[1]>> \o Collapsed(Tail(s))
    ELSE IF Len(s) > 1 /\ IsWhitespace(s[2]) THEN Collapsed(Tail(s))
    ELSE <<" ">> \o Collapsed(Tail(s))

\* a message. Best regards
MessageReduced ==
    <<"a"," ","m","e","s","s","a","g","e","."," ",
      "B","e","s","t"," ","r","e","g","a","r","d","s">>

\* C14: reduce_whitespace replaces every maximal run of whitespace in its
\* input, wherever the run occurs, by a single space and leaves the other
\* characters unchanged and in order; "a message.  \nBest  regards" becomes
\* "a message. Best regards".
C14_ReduceWhitespace ==
    op = "reduce_whitespace" =>
        /\ ret = Collapsed(call_src)
        /\ call_src = Message => ret = MessageReduced

\* no backslash, no brace, no '~', no "--", and only single spaces between words
Normalized(s) ==
    /\ \A j \in DOMAIN s : s[j] \notin {"\\", "{", "}", "~"}
    /\ \A j \in DOMAIN s : IsWhitespace(s[j]) => s[j] = " "
    /\ \A j \in 1..(Len(s) - 1) : ~(s[j] = "-" /\ s[j + 1] = "-")
    /\ \A j \in 1..(Len(s) - 1) : ~(s[j] = " " /\ s[j + 1] = " ")
    /\ s # <<>> => (s[1] # " " /\ s[Len(s)] # " ")

\* C15: normalization is a no-op on normalized text: for every field value
\* without backslash, brace, '~' or "--" and with only single spaces between
\* its words (any number of words), unicode_data returns the value unchanged.
C15_NormalizedUnchanged ==
    (op = "unicode_data" /\ ret # None /\ Normalized(call_src))
        => ret = Some(call_src)

\* s[i] is preceded by a backslash that is not itself escaped
RECURSIVE EscapedAt(_, _)
EscapedAt(s, i) == i > 1 /\ s[i - 1] = "\\" /\ ~EscapedAt(s, i - 1)

UnescapedBrace(s, i) == s[i] \in {"{", "}"} /\ ~EscapedAt(s, i)

\* the unescaped '{' less the unescaped '}' among s[1..n]
Depth(s, n) ==
    Cardinality({j \in 1..n : s[j] = "{" /\ UnescapedBrace(s, j)})
        - Cardinality({j \in 1..n : s[j] = "}" /\ UnescapedBrace(s, j)})

ProperlyNested(s) ==
    /\ \A n \in 1..Len(s) : Depth(s, n) >= 0
    /\ Depth(s, Len(s)) = 0

\* s[i..] without its unescaped braces
RECURSIVE WithoutGroups(_, _)
WithoutGroups(s, i) ==
    IF i > Len(s) THEN <<>>
    ELSE (IF UnescapedBrace(s, i) THEN <<>> ELSE <<s[i]>>) \o WithoutGroups(s, i + 1)

\* C16: degroup returns its input unchanged whenever the unescaped braces in
\* it are not properly nested and balanced, and otherwise returns the input
\* with exactly the unescaped '{' and '}' removed and every other character
\* kept in order.
C16_Degroup ==
    op = "degroup" =>
        ret = IF ProperlyNested(call_src) THEN WithoutGroups(call_src, 1)
              ELSE call_src

\* the tokens that carry text
TextTokenTypes == {"EntryType", "EntryId", "FieldName", "FieldData", "Preamble"}

NoErrorYet == \A j \in DOMAIN yielded : ~IsErr(yielded[j])

\* C17: each time the lexer emits a token carrying text (EntryType, EntryId,
\* FieldName, FieldData, Preamble) the arg cache is cleared, so the arg cache
\* is empty whenever the lexer is in Default.
C17_ArgCacheCleared ==
    [][(pc = "lex" /\ NoErrorYet) =>
          /\ (\E j \in (Len(emitted) + 1)..Len(emitted') :
                  emitted'[j].type \in TextTokenTypes) => iter'.arg_cache = <<>>
          /\ iter'.state = "Default" => iter'.arg_cache = <<>>]_vars

\* lex() is about to feed the '{' that opens an entry
AtOpeningBrace ==
    /\ pc = "lex"
    /\ iter.state \in {"ReadingType", "WaitForOpen"}
    /\ CurrentChr = "{"

\* C18: on the '{' that opens an entry the lexer moves to
\* ReadingPreambleStringStart if and only if the type text of that same entry
\* is "preamble" ignoring case, with or without whitespace between the type
\* and '{' and whatever entries came before; otherwise it moves to ReadingId.
C18_PreambleByOwnType ==
    [][(AtOpeningBrace /\ NoErrorYet) =>
          /\ emitted' # emitted
          /\ LET type == CHOOSE j \in (Len(emitted) + 1)..Len(emitted') :
                             emitted'[j].type = "EntryType"
             IN iter'.state = IF IsPreambleKind(emitted'[type].text)
                              THEN "ReadingPreambleStringStart"
                              ELSE "ReadingId"]_vars

\* a source of two blocks, named
TwoBlocks(first, second) ==
    input.family = "blocks" /\ input.blocks = <<first, second>>

\* C19: results come in source order: when complete entries are followed
\* later in the source by a lexical error, the entries are yielded first and
\* the error after them, and of two errors in one source the one that occurs
\* earlier in the source is reported first.
C19_SourceOrder ==
    /\ \A b \in {"book", "spaced"} : \A e \in {"garbage", "truncated"} :
           TwoBlocks(b, e) =>
               /\ yielded # <<>> => yielded[1] = ROk(BlockEntry(b))
               /\ Len(yielded) >= 2 => IsErr(yielded[2])
    /\ (TwoBlocks("duplicate", "garbage") /\ yielded # <<>>)
           => IsDuplicateNameOf(yielded[1], <<"a">>)

\* LexingIterator::next enters lex(), which starts at the first line
LexStarts == pc = "parse" /\ pc' \in {"lex", "lex_end"}

\* C20: for every finite source the lexer feeds each source chr to the state
\* machine at most once over the lifetime of one iterator (one forward pass,
\* no rescan after an error): lex() starts its loop over the source only
\* when nothing has been emitted or reported yet.
C20_SinglePass ==
    [][LexStarts => (yielded = <<>> /\ emitted = <<>>)]_vars

InBracedValue ==
    pc = "lex" /\ iter.state = "ReadingData" /\ iter.curlybrace_terminator

\* C21 (as claimed): in a brace-delimited value a backslash-escaped '"' and a
\* backslash-escaped '}' are each appended as the bare character, without the
\* backslash, and the escape flag is cleared; the escaped '}' neither ends
\* the value nor changes the brace depth.
C21_BracedEscapes_AsClaimed ==
    [][(InBracedValue /\ iter.escape_character /\ CurrentChr \in {"\"", "}"})
          => /\ iter'.arg_cache = Append(iter.arg_cache, CurrentChr)
             /\ iter'.escape_character = FALSE
             /\ iter'.state = "ReadingData"
             /\ iter'.curlybrace_level = iter.curlybrace_level
             /\ emitted' = emitted]_vars

\* C21 (amended): in a brace-delimited value a backslash-escaped '}' is
\* appended as the bare character, a backslash-escaped '"' is appended with
\* its backslash kept, and the escape flag is cleared; neither ends the
\* value nor changes the brace depth.
C21_BracedEscapes ==
    [][(InBracedValue /\ iter.escape_character /\ CurrentChr \in {"\"", "}"})
          => /\ iter'.arg_cache =
                    IF CurrentChr = "}" THEN Append(iter.arg_cache, "}")
                    ELSE iter.arg_cache \o <<"\\", "\"">>
             /\ iter'.escape_character = FALSE
             /\ iter'.state = "ReadingData"
             /\ iter'.curlybrace_level = iter.curlybrace_level
             /\ emitted' = emitted]_vars

\* {\"\}} has been lexed: the quote keeps its backslash, the brace is bare
C21_Witness ==
    /\ input.family = "brace"
    /\ input.data = BothEscapes
    /\ emitted = FieldTokens(<<"\\", "\"", "}">>)

InValue == pc = "lex" /\ iter.state = "ReadingData"

\* C22: in ReadingData a backslash followed by any chr other than '\', '"'
\* and '}' appends both the backslash and that chr to the value and clears
\* the escape flag; an escaped '{' is kept as \{ and does not change the
\* brace depth.
C22_OtherEscapesKept ==
    [][(InValue /\ iter.escape_character /\ CurrentChr \notin {"\\", "\"", "}"})
          => /\ iter'.arg_cache = iter.arg_cache \o <<"\\", CurrentChr>>
             /\ iter'.escape_character = FALSE
             /\ iter'.curlybrace_level = iter.curlybrace_level
             /\ iter'.state = "ReadingData"
             /\ emitted' = emitted]_vars

\* {\{} has been lexed: the value is \{ and the brace after it ended it
C22_Witness ==
    /\ input.family = "brace"
    /\ input.data = <<"\\", "{">>
    /\ emitted = FieldTokens(<<"\\", "{">>)

\* C23: in ReadingData two consecutive backslashes contribute exactly one
\* newline and no backslash to the value and leave the escape flag clear,
\* in brace-delimited and in quote-delimited values.
C23_DoubleBackslash ==
    /\ [][(InValue /\ iter.escape_character /\ CurrentChr = "\\")
             => /\ iter'.arg_cache = Append(iter.arg_cache, "\n")
                /\ iter'.escape_character = FALSE
                /\ iter'.curlybrace_level = iter.curlybrace_level
                /\ iter'.state = "ReadingData"
                /\ emitted' = emitted]_vars
    /\ []((input.family \in {"brace", "quote"} /\ input.data = <<"x", "\\", "\\">>)
             => IsPrefix(emitted, FieldTokens(<<"x", "\n">>)))

\* "x\\" has been lexed in a quote-delimited value: the value is x, newline
C23_Witness ==
    /\ input.family = "quote"
    /\ input.data = <<"x", "\\", "\\">>
    /\ emitted = FieldTokens(<<"x", "\n">>)

\* lex() is about to feed whitespace after a non-empty entry type
AtWhitespaceAfterType ==
    /\ pc = "lex"
    /\ iter.state = "ReadingType"
    /\ iter.arg_cache # <<>>
    /\ IsWhitespace(CurrentChr)

\* C24 (as claimed): in ReadingType, once the accumulated type text is
\* non-empty, a whitespace chr read before '{' is accumulated into the entry
\* type text.
C24_TypeWhitespace_AsClaimed ==
    [][AtWhitespaceAfterType
          => iter'.arg_cache = Append(iter.arg_cache, CurrentChr)]_vars

\* C24 (amended): in ReadingType, once the accumulated type text is
\* non-empty, a whitespace chr read before '{' ends the type: it is not
\* accumulated, EntrySymbol is emitted and the lexer waits for '{' in
\* WaitForOpen.
C24_TypeWhitespace ==
    [][AtWhitespaceAfterType
          => /\ iter'.arg_cache = iter.arg_cache
             /\ iter'.state = "WaitForOpen"
             /\ emitted' = Append(emitted, EntrySymbol)
             /\ yielded' = yielded]_vars

\* @b {i ,a ={x},c="y"} has been lexed: the type is b, without the space
C24_Witness ==
    /\ src = FullEntry
    /\ Len(emitted) = 10
    /\ emitted[1] = EntrySymbol
    /\ emitted[2] = EntryType(<<"b">>)
    /\ emitted[3] = OpenEntry

\* lex() is about to feed a chr that is not ASCII while reading an id or a name
AtNonAsciiInIdOrName ==
    /\ pc = "lex"
    /\ iter.state \in {"ReadingId", "ReadingName"}
    /\ ~IsAscii(CurrentChr)

IsUnexpectedCharOf(r, chr) ==
    IsErr(r) /\ r.error.kind = "UnexpectedChar" /\ r.error.chr = chr

AsciiOnly(s) == \A k \in DOMAIN s : IsAscii(s[k])

\* C25 (as claimed): in ReadingId and ReadingName every chr that is not
\* ASCII, non-ASCII whitespace included, is rejected with UnexpectedChar.
C25_NonAsciiRejected_AsClaimed ==
    [][AtNonAsciiInIdOrName
          => /\ Len(yielded') = Len(yielded) + 1
             /\ IsUnexpectedCharOf(yielded'[Len(yielded')], CurrentChr)]_vars

\* C25 (amended): in ReadingId and ReadingName every chr that is not ASCII
\* and not whitespace is rejected with UnexpectedChar; non-ASCII whitespace
\* is treated as whitespace (skipped before the text, ending it after) and
\* is not accumulated; so the text of every EntryId and FieldName token is
\* ASCII only.
C25_NonAsciiRejected ==
    /\ [][AtNonAsciiInIdOrName =>
             IF IsWhitespace(CurrentChr)
             THEN /\ yielded' = yielded
                  /\ emitted' = emitted
                  /\ iter'.arg_cache = iter.arg_cache
                  /\ iter'.state =
                         IF iter.arg_cache = <<>> THEN iter.state
                         ELSE IF iter.state = "ReadingId" THEN "WaitForComma"
                         ELSE "WaitForAssign"
             ELSE /\ Len(yielded') = Len(yielded) + 1
                  /\ IsUnexpectedCharOf(yielded'[Len(yielded')], CurrentChr)
                  /\ emitted' = emitted]_vars
    /\ [](\A j \in DOMAIN emitted :
              emitted[j].type \in {"EntryId", "FieldName"} => AsciiOnly(emitted[j].text))

\* the entry written with NO-BREAK SPACEs around its id and after its field
\* name has been lexed to the end without an error
C25_Witness ==
    /\ src = NbspEntry
    /\ emitted = <<EntrySymbol, EntryType(<<"b">>), OpenEntry, EntryId(<<"i">>),
                   FieldName(<<"a">>), FieldData(<<"x">>), CloseEntry, EndOfFile>>
    /\ NoErrorYet

\* the lines of a text, as str::lines hands them out
RECURSIVE SrcLines(_)
SrcLines(rest) ==
    IF rest = <<>> THEN <<>>
    ELSE <<NextLine(rest).line>> \o SrcLines(NextLine(rest).rest)

\* the position an UnexpectedChar error carries is that of its chr: the
\* 0-based number of its line, that line's text, and the 0-based column,
\* which is at most the length of the line
PositionRight(e) ==
    LET lines == SrcLines(src)
        n == e.info.lineno + 1
    IN /\ n \in DOMAIN lines
       /\ e.info.current_line = lines[n]
       /\ e.info.colno <= Len(lines[n])
       /\ ChrAt(lines[n], e.info.colno + 1) = e.chr

\* C26: an UnexpectedChar error carries the rejected chr together with the
\* 0-based number of the line it is on, its 0-based column within that line
\* and the raw text of that line; the column is at most the length of the
\* line.
C26_ErrorPosition ==
    \A j \in DOMAIN yielded :
        (IsErr(yielded[j]) /\ yielded[j].error.kind = "UnexpectedChar")
            => PositionRight(yielded[j].error)

\* a text with each of its line breaks, "\n" or "\r\n", written as one "\n"
RECURSIVE OneNewlinePerBreak(_)
OneNewlinePerBreak(s) ==
    IF s = <<>> THEN <<>>
    ELSE IF Len(s) >= 2 /\ s[1] = "\r" /\ s[2] = "\n"
         THEN <<"\n">> \o OneNewlinePerBreak(SubSeq(s, 3, Len(s)))
         ELSE <<s[1]>> \o OneNewlinePerBreak(Tail(s))

LineBreaks(s) == Cardinality({j \in DOMAIN s : s[j] = "\n"})

\* C27: a field value that spans several source lines contains exactly one
\* "\n" per line break, whatever the line ending (LF or CRLF), and all other
\* chrs of those lines, leading indentation included, are kept verbatim in
\* the FieldData: in @kind{id, name = {data}} with kind not "preamble", the
\* FieldData is data with every "\r\n" written as "\n".
C27_OneNewlinePerBreak ==
    (input.family = "minimal" /\ ~IsPreambleKind(input.kind))
        => \A j \in DOMAIN emitted :
               emitted[j].type = "FieldData"
                   => /\ emitted[j].text = OneNewlinePerBreak(input.data)
                      /\ LineBreaks(emitted[j].text) = LineBreaks(input.data)
                      /\ "\r" \notin Range(emitted[j].text)

\* the value 1 CR LF TAB LF SPACE 2 has been emitted as 1 LF TAB LF SPACE 2
C27_Witness ==
    /\ input.family = "minimal"
    /\ input.kind = <<"b">>
    /\ input.data = <<"1", "\r", "\n", "\t", "\n", " ", "2">>
    /\ \E j \in DOMAIN emitted :
           emitted[j] = FieldData(<<"1", "\n", "\t", "\n", " ", "2">>)

TypeAt(j) == IF j \in DOMAIN emitted THEN emitted[j].type ELSE "none"

\* the first Err has just been returned, or none has been returned yet
UpToFirstError ==
    \A j \in DOMAIN yielded : IsErr(yielded[j]) => (j = Len(yielded) /\ pc = "idle")
\* lexing has stopped: at EndOfFile, or at the first Err
LexingStopped ==
    /\ UpToFirstError
    /\ \/ TypeAt(Len(emitted)) = "EndOfFile"
       \/ yielded # <<>> /\ IsErr(yielded[Len(yielded)])

\* every FieldData token is immediately preceded by a FieldName token
DataAfterName ==
    \A j \in DOMAIN emitted :
        TypeAt(j) = "FieldData" => TypeAt(j - 1) = "FieldName"
\* EntrySymbol, EntryType and OpenEntry occur only as a consecutive triple
HeadTriples ==
    \A j \in DOMAIN emitted :
        /\ TypeAt(j) = "EntrySymbol"
               => (TypeAt(j + 1) = "EntryType" /\ TypeAt(j + 2) = "OpenEntry")
        /\ TypeAt(j) = "EntryType"
               => (TypeAt(j - 1) = "EntrySymbol" /\ TypeAt(j + 1) = "OpenEntry")
        /\ TypeAt(j) = "OpenEntry"
               => (TypeAt(j - 2) = "EntrySymbol" /\ TypeAt(j - 1) = "EntryType")
\* the same, but the tokens may end with an EntrySymbol
HeadTriplesOrLoneSymbol ==
    \A j \in DOMAIN emitted :
        /\ TypeAt(j) = "EntrySymbol"
               => \/ j = Len(emitted)
                  \/ TypeAt(j + 1) = "EntryType" /\ TypeAt(j + 2) = "OpenEntry"
        /\ TypeAt(j) = "EntryType"
               => (TypeAt(j - 1) = "EntrySymbol" /\ TypeAt(j + 1) = "OpenEntry")
        /\ TypeAt(j) = "OpenEntry"
               => (TypeAt(j - 2) = "EntrySymbol" /\ TypeAt(j - 1) = "EntryType")
\* every CloseEntry is preceded by an OpenEntry with no other CloseEntry in
\* between, and the triple occurs once per entry: between two OpenEntry
\* there is a CloseEntry
OpenCloseAlternate ==
    /\ \A j \in DOMAIN emitted :
           TypeAt(j) = "CloseEntry"
               => \E i \in 1..(j - 1) :
                      /\ TypeAt(i) = "OpenEntry"
                      /\ \A k \in (i + 1)..(j - 1) : TypeAt(k) # "CloseEntry"
    /\ \A i \in DOMAIN emitted : \A j \in DOMAIN emitted :
           (i < j /\ TypeAt(i) = "OpenEntry" /\ TypeAt(j) = "OpenEntry")
               => \E k \in (i + 1)..(j - 1) : TypeAt(k) = "CloseEntry"

\* C28 (as claimed): in the tokens the lexer produces up to the first error
\* or EndOfFile, every FieldData is immediately preceded by a FieldName,
\* EntrySymbol, EntryType and OpenEntry occur only as a consecutive triple in
\* that order once per entry, and every CloseEntry is preceded by an
\* OpenEntry with no other CloseEntry in between.
C28_TokenGrammar_AsClaimed ==
    LexingStopped => (DataAfterName /\ HeadTriples /\ OpenCloseAlternate)

\* C28 (amended): the same at every moment up to the first error or
\* EndOfFile, except that the tokens may end with an EntrySymbol that no
\* EntryType follows (the type was followed by whitespace, and what came
\* next was not '{').
C28_TokenGrammar ==
    UpToFirstError
        => (DataAfterName /\ HeadTriplesOrLoneSymbol /\ OpenCloseAlternate)

\* all tokens of @b {i ,a ={x},c="y"}, whose type is ended by whitespace,
\* have been produced, without an error
C28_Witness ==
    /\ src = FullEntry
    /\ NoErrorYet
    /\ TypeAt(Len(emitted)) = "EndOfFile"
    /\ Cardinality({j \in DOMAIN emitted : TypeAt(j) = "FieldData"}) = 2
    /\ TypeAt(1) = "EntrySymbol" /\ TypeAt(3) = "OpenEntry"

\* the type written in the block of an entry of this kind is "preamble": the
\* kind is that word, possibly after text that an earlier preamble block left
\* in the arg cache
FromPreambleBlock(kind) ==
    \E n \in 0..Len(kind) : IsPreambleKind(SubSeq(kind, n + 1, Len(kind)))

\* C29: every Entry the parser yields either has at least one field or
\* comes from a preamble block (empty id, no fields): an ordinary entry
\* without fields is never yielded as an Entry.
C29_NoFieldlessEntry ==
    \A j \in DOMAIN yielded :
        IsOk(yielded[j])
            => \/ DOMAIN yielded[j].entry.fields # {}
               \/ /\ FromPreambleBlock(yielded[j].entry.kind)
                  /\ yielded[j].entry.id = <<>>

\* no call has returned an error of the lexer
NoLexingError ==
    \A j \in DOMAIN yielded : IsErr(yielded[j]) => yielded[j].error.kind = "DuplicateName"

CountOf(type) == Cardinality({j \in DOMAIN emitted : emitted[j].type = type})
Queued(type) ==
    Cardinality({j \in DOMAIN iter.next_tokens : iter.next_tokens[j].token.type = type})
YieldedEntries == Cardinality({j \in DOMAIN yielded : IsOk(yielded[j])})
WhitespaceOnly == \A j \in DOMAIN src : IsWhitespace(src[j])

\* the tokens end with the one EndOfFile once the lexer is at its end, and
\* every CloseEntry has become an entry, yielded or about to be
EndsWithOneEndOfFile ==
    /\ CountOf("EndOfFile") = IF iter.eof THEN 1 ELSE 0
    /\ iter.eof => emitted[Len(emitted)] = EndOfFile
    /\ YieldedEntries + Len(entries) + Queued("CloseEntry") = CountOf("CloseEntry")
    /\ finished => (iter.eof /\ YieldedEntries = CountOf("CloseEntry"))
    /\ WhitespaceOnly => \A j \in DOMAIN yielded : yielded[j] = RNone

\* after EndOfFile no token is produced, and LexingIterator::next, called
\* with no token left, returns None
NoneAfterEndOfFile ==
    iter.eof =>
        /\ iter'.eof
        /\ emitted' = emitted
        /\ (pc = "parse" /\ iter.next_tokens = <<>>)
               => (finished' /\ pc' = "next" /\ iter' = iter /\ yielded' = yielded)
        /\ finished => (finished' /\ (yielded' # yielded => yielded' = Append(yielded, RNone)))

\* C30: for a source that lexes without error, the tokens end with exactly
\* one EndOfFile, after which LexingIterator::next returns None on every
\* call, and the parser yields exactly as many entries as there are
\* CloseEntry tokens; an empty or whitespace-only source yields no entry and
\* no error.
C30_EndOfFileOnce ==
    /\ [](NoLexingError => EndsWithOneEndOfFile)
    /\ [][NoLexingError => NoneAfterEndOfFile]_vars

\* two blocks, one of them a preamble: two entries for two CloseEntry, one
\* EndOfFile, then None twice
C30_Witness ==
    /\ TwoBlocks("book", "PREAMBLE")
    /\ CountOf("CloseEntry") = 2
    /\ CountOf("EndOfFile") = 1
    /\ yielded = <<ROk(BlockEntry("book")), ROk(BlockEntry("PREAMBLE")), RNone, RNone>>

\* this step of lex() returns UnexpectedChar
RejectsChr ==
    /\ pc = "lex"
    /\ Len(yielded') = Len(yielded) + 1
    /\ IsErr(yielded'[Len(yielded')])
    /\ yielded'[Len(yielded')].error.kind = "UnexpectedChar"

\* C31: when a state rejects a chr with UnexpectedChar, that chr changes
\* nothing: the lexer state, arg cache, escape flag, brace depth, line and
\* column counters and the queue of tokens already produced are as they
\* were before the chr was read.
C31_RejectedChrChangesNothing ==
    [][RejectsChr =>
          /\ yielded'[Len(yielded')].error.chr = CurrentChr
          /\ iter'.state = iter.state
          /\ iter'.arg_cache = iter.arg_cache
          /\ iter'.escape_character = iter.escape_character
          /\ iter'.curlybrace_level = iter.curlybrace_level
          /\ iter'.lineno = iter.lineno
          /\ iter'.colno = iter.colno
          /\ iter'.next_tokens = iter.next_tokens
          /\ iter' = iter
          /\ emitted' = emitted]_vars

\* the non-ASCII chr of the field name in @b{i,a<e acute>={x}} has been
\* rejected: the lexer is still in ReadingName at column 6 of line 0, with
\* "a" in the arg cache and the four tokens produced so far in the queue
C31_Witness ==
    /\ src = AccentName
    /\ Len(yielded) = 1
    /\ IsErr(yielded[1])
    /\ yielded[1].error.kind = "UnexpectedChar"
    /\ yielded[1].error.chr = EAcute
    /\ pc = "idle"
    /\ iter.state = "ReadingName"
    /\ iter.arg_cache = <<"a">>
    /\ iter.lineno = 0
    /\ iter.colno = 6
    /\ Len(iter.next_tokens) = 4

\* the brace depth is 0 outside ReadingData and in a quote-delimited value,
\* and in ReadingData exactly one of the two terminator modes is set
BraceDepthInv ==
    /\ iter.curlybrace_level >= 0
    /\ iter.state # "ReadingData" => iter.curlybrace_level = 0
    /\ iter.state = "ReadingData" =>
           /\ iter.curlybrace_terminator # iter.dblquotes_terminator
           /\ iter.dblquotes_terminator => iter.curlybrace_level = 0

\* the brace depth goes down by one at a time, and only from above 0
BraceDepthStep ==
    iter'.curlybrace_level < iter.curlybrace_level
        => /\ iter.curlybrace_level > 0
           /\ iter'.curlybrace_level = iter.curlybrace_level - 1

\* C32: the brace depth counter is never decremented when it is 0, is 0
\* whenever the lexer is in any state other than ReadingData, and stays 0
\* throughout a quote-delimited value; while the lexer is in ReadingData
\* exactly one of the two terminator modes (brace, quote) is set.
C32_BraceDepth ==
    /\ []BraceDepthInv
    /\ [][BraceDepthStep]_vars

\* the value {{}} in braces has been read: the depth went up to 2 and is
\* back at 0 now that its FieldData is out
C32_Witness ==
    /\ input.family = "brace"
    /\ input.data = <<"{", "{", "}", "}">>
    /\ iter.state = "WaitForSep"
    /\ iter.curlybrace_level = 0
    /\ emitted # <<>>
    /\ emitted[Len(emitted)] = FieldData(<<"{", "{", "}", "}">>)

EscapeStates == {"ReadingData", "ReadingPreambleString"}

\* the escape flag is clear outside ReadingData and ReadingPreambleString
EscapeFlagInv == iter.state \notin EscapeStates => ~iter.escape_character

\* this step produces a FieldData or a Preamble token
EmitsText ==
    \E j \in (Len(emitted) + 1)..Len(emitted') :
        emitted'[j].type \in {"FieldData", "Preamble"}
\* this step starts a field value or a preamble string
StartsValue == iter.state \notin EscapeStates /\ iter'.state \in EscapeStates

\* a text token is produced with the flag clear, before and after, and a
\* value starts with the flag clear
EscapeFlagStep ==
    /\ EmitsText => (~iter.escape_character /\ ~iter'.escape_character)
    /\ StartsValue => ~iter'.escape_character

\* C33: the escape flag is clear whenever the lexer is in a state other than
\* ReadingData and ReadingPreambleString; in particular no FieldData or
\* Preamble token is emitted while the flag is set, and a flag set in one
\* field value never affects the next value.
C33_EscapeFlag ==
    /\ []EscapeFlagInv
    /\ [][EscapeFlagStep]_vars

\* @preamble{"q\""} has been read to its end: the escaped '"' did not end the
\* string, the Preamble token holds q", and the flag is clear in Default
C33_Witness ==
    /\ input.family = "preamble"
    /\ input.segs = <<(<<"q", "\\", "\"">>)>>
    /\ iter.state = "Default"
    /\ ~iter.escape_character
    /\ \E j \in DOMAIN emitted : emitted[j] = Preamble(<<"q", "\"">>)

====
